---- MODULE Spec2Model ----
(***************************************************************************)
(* dinodoro.ts: a Pomodoro-style focus timer for macOS (Deno).              *)
(*                                                                         *)
(* The model follows one run of the script: the module-level code (flag    *)
(* parsing, --help, the constants), main() up to and after its single      *)
(* await, and then the event loop dispatching the timers main() and the    *)
(* handlers register.  `now` is the event loop's clock in milliseconds,    *)
(* with its origin at the turn in which main() resumes after its await:    *)
(* every setTimeout of the program is made in that turn or in a timer      *)
(* callback.  A timer runs at its deadline; timers with equal deadlines    *)
(* run in registration order.  Positional arguments are strings, as the    *)
(* cast at line 210 declares.                                              *)
(***************************************************************************)
EXTENDS Integers, Sequences, FiniteSets, TLC

\* Bounds of the model: the largest -w/-b value and the largest -i value tried.
MaxMinutes == 2
MaxCycles == 2

\* Defaults of the parse options (lines 19-23).
DefaultInterval == 4
DefaultWork == 25
DefaultBreak == 5
\* let originalVolume = 50 (line 53) and the catch branch of getVolume (line 154).
InitialVolume == 50
FallbackVolume == 50
\* Number.NaN, the value of parseInt on a text with no leading digits.
NaN == -1
\* The delays of playPlaylist (line 115) and playCompletionSound (lines 96, 98).
ShuffleDelayMs == 500
BeepGapMs == 350
BeepCount == 5
MsPerMinute == 60000

VARIABLES
    args,            \* Deno.args
    flags,           \* const flags = parse(Deno.args, ...)
    pc,              \* where the script stands: module code, main's await, returned
    status,          \* "running", "exit(0)", "exit(1)" (Deno.exit), "uncaught", "killed"
    operatingMode,   \* let operatingMode (line 54)
    originalVolume,  \* let originalVolume (line 53)
    now,             \* the event loop's clock, ms
    timers,          \* pending setTimeout registrations
    nextTimerId,     \* registration order of the timers
    fired,           \* the cycle handlers that have run: <<[ev, k, at]>>
    cmds,            \* the external commands issued through runCommand
    unhandled,       \* a runCommand promise rejected with no handler attached
    queryResult      \* what the awaited osascript query of main resolved to

vars == <<args, flags, pc, status, operatingMode, originalVolume, now, timers,
          nextTimerId, fired, cmds, unhandled, queryResult>>

----------------------------------------------------------------------------
\* Command line and flag parsing (lines 10-24, 48-51)

\* The option is absent (<<>>) or given with a value (<<v>>).
Opt(S) == {<<>>} \cup {<<v>> : v \in S}

Switches == {"--last-break", "--lastBreak", "--search", "--help"}
PlaylistNames == {"", "Deep Focus"}
\* Positional arguments, as texts: a URL and a word that is no URL.
Positionals == { <<"h", "t", "t", "p", "s", ":", "/", "/", "y", "t">>,
                 <<"n", "o", "t", "e", "s">> }

CommandLines ==
    [ switches   : SUBSET Switches,
      work       : Opt(0..MaxMinutes),
      break      : Opt(0..MaxMinutes),
      interval   : Opt(0..MaxCycles),
      playlist   : Opt(PlaylistNames),
      positional : Opt(Positionals) ]

\* std/flags parse: a declared boolean is stored under the name it was declared
\* with and defaults to false; an undeclared switch is stored under the name it
\* was typed with and is absent when it was not typed; numbers take the defaults.
parse(a) ==
    [ help     |-> "--help" \in a.switches,
      search   |-> "--search" \in a.switches,
      work     |-> IF a.work = <<>> THEN DefaultWork ELSE a.work[1],
      break    |-> IF a.break = <<>> THEN DefaultBreak ELSE a.break[1],
      interval |-> IF a.interval = <<>> THEN DefaultInterval ELSE a.interval[1],
      playlist |-> a.playlist ]
    @@ ("_" :> a.positional)
    @@ ("last-break" :> ("--last-break" \in a.switches))
    @@ (IF "--lastBreak" \in a.switches THEN "lastBreak" :> TRUE ELSE <<>>)

\* flags.lastBreak as a condition: undefined (falsy) when the key is absent.
flags_lastBreak == "lastBreak" \in DOMAIN flags /\ flags["lastBreak"]

WORK_MINUTES == flags.work
BREAK_MINUTES == flags.break
TOTAL_CYCLES == flags.interval
\* A slip in the unit conversion: seconds for minutes.
WORK_INTERVAL_MS_seconds == WORK_MINUTES * 1000
WORK_INTERVAL_MS == WORK_MINUTES * MsPerMinute
BREAK_INTERVAL_MS == BREAK_MINUTES * MsPerMinute
\* A slip: the break left out of the cycle length.
CYCLE_DURATION_MS_workOnly == WORK_INTERVAL_MS
CYCLE_DURATION_MS == WORK_INTERVAL_MS + BREAK_INTERVAL_MS

----------------------------------------------------------------------------
\* Text helpers: String.prototype.trim, parseInt(s, 10), startsWith
\* (texts that the program inspects are sequences of characters)

startsWith(s, prefix) ==
    Len(s) >= Len(prefix) /\ SubSeq(s, 1, Len(prefix)) = prefix

Whitespace == {" ", "\n", "\t"}
Digits == <<"0", "1", "2", "3", "4", "5", "6", "7", "8", "9">>
IsDigit(c) == \E d \in 1..10 : Digits[d] = c
DigitValue(c) == (CHOOSE d \in 1..10 : Digits[d] = c) - 1

RECURSIVE trimStart(_)
trimStart(s) ==
    IF s # <<>> /\ Head(s) \in Whitespace THEN trimStart(Tail(s)) ELSE s

RECURSIVE trimEnd(_)
trimEnd(s) ==
    IF s # <<>> /\ s[Len(s)] \in Whitespace
    THEN trimEnd(SubSeq(s, 1, Len(s) - 1)) ELSE s

trim(s) == trimEnd(trimStart(s))

RECURSIVE parseDigits(_, _)
parseDigits(s, acc) ==
    IF s # <<>> /\ IsDigit(Head(s))
    THEN parseDigits(Tail(s), 10 * acc + DigitValue(Head(s)))
    ELSE acc

\* parseInt(s, 10) on unsigned text: the leading digits, NaN when there are none.
parseInt(s) ==
    IF s # <<>> /\ IsDigit(Head(s)) THEN parseDigits(s, 0) ELSE NaN

----------------------------------------------------------------------------
\* runCommand and the queries built on it (lines 58-84, 148-156)

\* What a runCommand promise settles to: rejected (the process could not be
\* spawned), or resolved with an exit code and the text of stdout.
Rejected == [rejected |-> TRUE, code |-> 0, stdout |-> <<>>]
Resolved(code, stdout) == [rejected |-> FALSE, code |-> code, stdout |-> stdout]
NotSettled == [rejected |-> FALSE, code |-> 0 - 1, stdout |-> <<>>]

\* osascript -e "output volume of (get volume settings)"
VolumeResults ==
    { Rejected,
      Resolved(0, <<"7", "0", "\n">>),
      Resolved(1, <<>>) }

\* osascript -e 'tell application "Music" to exists (playlist named ...)'
ExistsResults ==
    { Rejected,
      Resolved(0, <<"t", "r", "u", "e", "\n">>),
      Resolved(0, <<"f", "a", "l", "s", "e", "\n">>),
      Resolved(1, <<>>) }

getVolume(r) ==
    IF r.rejected THEN FallbackVolume ELSE parseInt(trim(r.stdout))

\* A slip: the catch branch answering true.
playlistExists_catchTrue(r) ==
    IF r.rejected THEN TRUE ELSE trim(r.stdout) = <<"t", "r", "u", "e">>
playlistExists(r) ==
    IF r.rejected THEN FALSE ELSE trim(r.stdout) = <<"t", "r", "u", "e">>

\* One entry of cmds: the action behind the command line, and the level of a
\* "set volume output volume <level>" (0 for every other command).
Cmd(act) == [act |-> act, level |-> 0]
setVolume(level) == [act |-> "set volume", level |-> level]

muteSystem == setVolume(0)
restoreSystemVolume == setVolume(originalVolume)
pauseMusic == Cmd("pause")
resumeMusic == Cmd("play")
stopMusic == Cmd("stop")

----------------------------------------------------------------------------
\* Timers

Alive == status = "running"

Timer(id, due, fn, k) == [id |-> id, due |-> due, fn |-> fn, k |-> k]

\* The event loop runs the timer with the earliest deadline, the one registered
\* first among equals.
Before(t, u) == t.due < u.due \/ (t.due = u.due /\ t.id <= u.id)
IsNext(t) == t \in timers /\ \A u \in timers : Before(t, u)

\* A slip: the completion timer of the final break left out.
CycleTimers_noFinal(id0) ==
    { Timer(id0 + i, now + i * CYCLE_DURATION_MS, "runCycle", i + 1) :
        i \in 0..(TOTAL_CYCLES - 1) }
\* main's loop and its trailing if (lines 238-245), registering from id0 on.
CycleTimers(id0) ==
    { Timer(id0 + i, now + i * CYCLE_DURATION_MS, "runCycle", i + 1) :
        i \in 0..(TOTAL_CYCLES - 1) }
    \cup
    ( IF flags_lastBreak
      THEN { Timer(id0 + TOTAL_CYCLES, now + TOTAL_CYCLES * CYCLE_DURATION_MS,
                   "runFinalActions", 0) }
      ELSE {} )

\* A slip: the 1-based cycle number compared as if it were the loop index.
isLastCycle_zeroBased(currentCycle) == currentCycle = TOTAL_CYCLES - 1
isLastCycle(currentCycle) == currentCycle = TOTAL_CYCLES

\* A slip: the negation of the flag dropped.
replacesBreak_flagInverted(currentCycle) ==
    isLastCycle(currentCycle) /\ flags_lastBreak
\* if (isLastCycle && !flags.lastBreak) (line 192)
replacesBreak(currentCycle) == isLastCycle(currentCycle) /\ ~flags_lastBreak

----------------------------------------------------------------------------
\* Module-level code and main (lines 26-44, 207-248)

Init ==
    /\ args \in CommandLines
    /\ flags = parse(args)
    /\ pc = "module"
    /\ status = "running"
    /\ operatingMode = "system"
    /\ originalVolume = InitialVolume
    /\ now = 0
    /\ timers = {}
    /\ nextTimerId = 1
    /\ fired = <<>>
    /\ cmds = <<>>
    /\ unhandled = FALSE
    /\ queryResult = NotSettled

\* if (flags.help) { ...; Deno.exit(0) }
Help ==
    /\ Alive /\ pc = "module" /\ flags.help
    /\ status' = "exit(0)"
    /\ UNCHANGED <<args, flags, pc, operatingMode, originalVolume, now, timers,
                   nextTimerId, fired, cmds, unhandled, queryResult>>

\* The conditions of main's if / else if (lines 213, 218).
isYoutube ==
    /\ flags["_"] # <<>>
    /\ flags["_"][1] # <<>>
    /\ startsWith(flags["_"][1], <<"h", "t", "t", "p">>)
hasPlaylist == flags.playlist # <<>> /\ flags.playlist[1] # ""

\* A slip: the playlist tested before the URL.
SelectMode_playlistFirst ==
    IF hasPlaylist THEN "music" ELSE IF isYoutube THEN "youtube" ELSE "system"
SelectMode ==
    IF isYoutube THEN "youtube" ELSE IF hasPlaylist THEN "music" ELSE "system"

\* A slip: the search flag tested the wrong way round.
afterExists_searchInverted(exists, search) ==
    IF exists THEN "playPlaylist"
    ELSE IF ~search THEN "searchAndPlayMusic" ELSE "Deno.exit(1)"
\* The branch main takes once playlistExists has answered (lines 221-229).
afterExists(exists, search) ==
    IF exists THEN "playPlaylist"
    ELSE IF search THEN "searchAndPlayMusic" ELSE "Deno.exit(1)"

\* A slip: getVolume() / playlistExists() called without await, so that main
\* runs on to its loop and registers the cycle timers before the answer.
MainStart_notAwaited ==
    /\ Alive /\ pc = "module" /\ ~flags.help
    /\ operatingMode' = SelectMode
    /\ \/ /\ SelectMode = "youtube"
          /\ cmds' = cmds \o <<Cmd("open url"), Cmd("get volume")>>
          /\ \E rejects \in BOOLEAN : unhandled' = rejects
          /\ pc' = "await getVolume"
       \/ /\ SelectMode = "music"
          /\ cmds' = Append(cmds, Cmd("exists playlist"))
          /\ pc' = "await playlistExists"
          /\ UNCHANGED unhandled
       \/ /\ SelectMode = "system"
          /\ cmds' = Append(cmds, Cmd("get volume"))
          /\ pc' = "await getVolume"
          /\ UNCHANGED unhandled
    /\ timers' = timers \cup CycleTimers(nextTimerId)
    /\ nextTimerId' = nextTimerId + Cardinality(CycleTimers(nextTimerId))
    /\ UNCHANGED <<args, flags, status, originalVolume, now, fired, queryResult>>

\* main() up to its await: the mode, playYouTubeVideo, and the query it awaits.
MainStart ==
    /\ Alive /\ pc = "module" /\ ~flags.help
    /\ operatingMode' = SelectMode
    /\ \/ /\ SelectMode = "youtube"
          /\ cmds' = cmds \o <<Cmd("open url"), Cmd("get volume")>>
          /\ \E rejects \in BOOLEAN : unhandled' = rejects
          /\ pc' = "await getVolume"
       \/ /\ SelectMode = "music"
          /\ cmds' = Append(cmds, Cmd("exists playlist"))
          /\ pc' = "await playlistExists"
          /\ UNCHANGED unhandled
       \/ /\ SelectMode = "system"
          /\ cmds' = Append(cmds, Cmd("get volume"))
          /\ pc' = "await getVolume"
          /\ UNCHANGED unhandled
    /\ UNCHANGED <<args, flags, status, originalVolume, now, timers,
                   nextTimerId, fired, queryResult>>

\* main() from "originalVolume = await getVolume()" to its end.
MainAfterGetVolume ==
    /\ Alive /\ pc = "await getVolume"
    /\ \E r \in VolumeResults :
          /\ queryResult' = r
          /\ originalVolume' = getVolume(r)
    /\ timers' = timers \cup CycleTimers(nextTimerId)
    /\ nextTimerId' = nextTimerId + Cardinality(CycleTimers(nextTimerId))
    /\ pc' = "returned"
    /\ UNCHANGED <<args, flags, status, operatingMode, now, fired, cmds, unhandled>>

\* main() from "exists = await playlistExists(playlistName)" to its end.
MainAfterPlaylistExists ==
    /\ Alive /\ pc = "await playlistExists"
    /\ \E r \in ExistsResults :
          /\ queryResult' = r
          /\ \/ /\ afterExists(playlistExists(r), flags.search) = "playPlaylist"
                \* playPlaylist: play now, shuffle/repeat settings 500 ms later
                /\ cmds' = Append(cmds, Cmd("play playlist"))
                /\ timers' = timers
                      \cup { Timer(nextTimerId, now + ShuffleDelayMs, "shuffle", 0) }
                      \cup CycleTimers(nextTimerId + 1)
                /\ nextTimerId' =
                      nextTimerId + 1 + Cardinality(CycleTimers(nextTimerId + 1))
                /\ pc' = "returned"
                /\ UNCHANGED <<status, unhandled>>
             \/ /\ afterExists(playlistExists(r), flags.search) = "searchAndPlayMusic"
                \* searchAndPlayMusic: runCommand(["open", searchUrl]), not awaited
                /\ cmds' = Append(cmds, Cmd("open search"))
                /\ \E rejects \in BOOLEAN : unhandled' = (unhandled \/ rejects)
                /\ timers' = timers \cup CycleTimers(nextTimerId)
                /\ nextTimerId' = nextTimerId + Cardinality(CycleTimers(nextTimerId))
                /\ pc' = "returned"
                /\ UNCHANGED status
             \/ /\ afterExists(playlistExists(r), flags.search) = "Deno.exit(1)"
                /\ status' = "exit(1)"
                /\ UNCHANGED <<pc, cmds, timers, nextTimerId, unhandled>>
    /\ UNCHANGED <<args, flags, operatingMode, originalVolume, now, fired>>

----------------------------------------------------------------------------
\* Timer callbacks (lines 93-116, 172-203)

\* runFinalActions, run by timer t: stop or restore, then the first afplay of
\* playCompletionSound and the 350 ms wait before the next one.
RunFinalActions(t) ==
    /\ fired' = Append(fired, [ev |-> "complete", k |-> 0, at |-> t.due])
    /\ cmds' = cmds \o
          << IF operatingMode = "music" THEN stopMusic ELSE restoreSystemVolume,
             Cmd("afplay") >>
    /\ \E rejects \in BOOLEAN : unhandled' = (unhandled \/ rejects)
    /\ timers' = (timers \ {t})
          \cup { Timer(nextTimerId, t.due + BeepGapMs, "playCompletionSound", 1) }
    /\ nextTimerId' = nextTimerId + 1

\* setTimeout(() => runCycle(i + 1), ...): the work-start handler.
RunCycle ==
    /\ Alive
    /\ \E t \in timers :
          /\ IsNext(t) /\ t.fn = "runCycle"
          /\ now' = t.due
          /\ cmds' = Append(cmds,
                IF operatingMode = "music" THEN resumeMusic ELSE restoreSystemVolume)
          /\ fired' = Append(fired, [ev |-> "work", k |-> t.k, at |-> t.due])
          /\ timers' = (timers \ {t})
                \cup { Timer(nextTimerId, t.due + WORK_INTERVAL_MS, "workElapsed", t.k) }
          /\ nextTimerId' = nextTimerId + 1
    /\ UNCHANGED <<args, flags, pc, status, operatingMode, originalVolume,
                   unhandled, queryResult>>

\* A slip: the break-start mutes the system whatever the mode.
breakStartCommand_modeIgnored == muteSystem
\* if (operatingMode === "music") pauseMusic(); else muteSystem(); (lines 197-201)
breakStartCommand == IF operatingMode = "music" THEN pauseMusic ELSE muteSystem

\* The callback runCycle registers (lines 190-202): completion in place of the
\* last break, or the break-start.
WorkElapsed ==
    /\ Alive
    /\ \E t \in timers :
          /\ IsNext(t) /\ t.fn = "workElapsed"
          /\ now' = t.due
          /\ \/ /\ replacesBreak(t.k)
                /\ RunFinalActions(t)
             \/ /\ ~replacesBreak(t.k)
                /\ fired' = Append(fired, [ev |-> "break", k |-> t.k, at |-> t.due])
                /\ cmds' = Append(cmds, breakStartCommand)
                /\ timers' = timers \ {t}
                /\ UNCHANGED <<nextTimerId, unhandled>>
    /\ UNCHANGED <<args, flags, pc, status, operatingMode, originalVolume,
                   queryResult>>

\* setTimeout(runFinalActions, totalProgramDuration) (line 244).
FinalTimer ==
    /\ Alive
    /\ \E t \in timers :
          /\ IsNext(t) /\ t.fn = "runFinalActions"
          /\ now' = t.due
          /\ RunFinalActions(t)
    /\ UNCHANGED <<args, flags, pc, status, operatingMode, originalVolume,
                   queryResult>>

\* The 500 ms callback of playPlaylist (lines 108-115).
ShuffleTimer ==
    /\ Alive
    /\ \E t \in timers :
          /\ IsNext(t) /\ t.fn = "shuffle"
          /\ now' = t.due
          /\ cmds' = Append(cmds, Cmd("shuffle off, repeat all"))
          /\ timers' = timers \ {t}
    /\ UNCHANGED <<args, flags, pc, status, operatingMode, originalVolume,
                   nextTimerId, fired, unhandled, queryResult>>

\* playCompletionSound resuming after a 350 ms wait, t.k afplay commands made.
BeepTimer ==
    /\ Alive
    /\ \E t \in timers :
          /\ IsNext(t) /\ t.fn = "playCompletionSound"
          /\ now' = t.due
          /\ \/ /\ t.k < BeepCount
                /\ cmds' = Append(cmds, Cmd("afplay"))
                /\ \E rejects \in BOOLEAN : unhandled' = (unhandled \/ rejects)
                /\ timers' = (timers \ {t})
                      \cup { Timer(nextTimerId, t.due + BeepGapMs,
                                   "playCompletionSound", t.k + 1) }
                /\ nextTimerId' = nextTimerId + 1
             \/ /\ t.k >= BeepCount
                /\ timers' = timers \ {t}
                /\ UNCHANGED <<cmds, nextTimerId, unhandled>>
    /\ UNCHANGED <<args, flags, pc, status, operatingMode, originalVolume,
                   fired, queryResult>>

\* A rejected promise nobody handles: Deno reports "Uncaught (in promise)" and
\* ends the process; the pending timers never run.
UncaughtRejection ==
    /\ Alive /\ unhandled
    /\ status' = "uncaught"
    /\ UNCHANGED <<args, flags, pc, operatingMode, originalVolume, now, timers,
                   nextTimerId, fired, cmds, unhandled, queryResult>>

\* A slip the other way: a signal listener that restores the audio on the way out.
Interrupt_restores ==
    /\ Alive /\ pc = "returned" /\ timers # {}
    /\ status' = "killed"
    /\ cmds' = Append(cmds,
          IF operatingMode = "music" THEN resumeMusic ELSE restoreSystemVolume)
    /\ UNCHANGED <<args, flags, pc, operatingMode, originalVolume, now, timers,
                   nextTimerId, fired, unhandled, queryResult>>

\* The process is ended from outside (Ctrl-C, kill) while timers are pending.
\* The script registers no signal listener and no unload handler, so the
\* process ends there and then: nothing runs, the timers are lost.
Interrupt ==
    /\ Alive /\ pc = "returned" /\ timers # {}
    /\ status' = "killed"
    /\ UNCHANGED <<args, flags, pc, operatingMode, originalVolume, now, timers,
                   nextTimerId, fired, cmds, unhandled, queryResult>>

Next ==
    \/ Help
    \/ MainStart
    \/ MainAfterGetVolume
    \/ MainAfterPlaylistExists
    \/ RunCycle
    \/ WorkElapsed
    \/ FinalTimer
    \/ ShuffleTimer
    \/ BeepTimer
    \/ UncaughtRejection
    \/ Interrupt

Spec == Init /\ [][Next]_vars

\* The process ended by itself: main returned and the event loop ran dry.
Finished == Alive /\ pc = "returned" /\ timers = {} /\ ~unhandled

----------------------------------------------------------------------------
\* Vocabulary of the properties

\* The positions of the handlers of one kind (and of one cycle) in fired.
Fired(ev) == {i \in DOMAIN fired : fired[i].ev = ev}
FiredOf(ev, k) == {i \in Fired(ev) : fired[i].k = k}

\* The configuration, in the words of the specification.
cycleCount == flags.interval
workDurationMs == flags.work * 60000
cycleDuration == flags.work * 60000 + flags.break * 60000
includeFinalBreak == flags_lastBreak
ValidDurations == cycleCount >= 1 /\ flags.work > 0 /\ flags.break > 0
DefaultsTyped == args.work = <<>> /\ args.break = <<>> /\ args.interval = <<>>

----------------------------------------------------------------------------
\* C1: with cycleCount >= 1 and work, break > 0, a full run fires runCycle(k)
\* exactly once for each k in 1..cycleCount, exactly
\* cycleCount - (includeFinalBreak ? 0 : 1) break-starts and exactly one
\* completion; and at no moment of a run has any of them fired more often.
C1_EventCounts ==
    ValidDurations =>
        LET breaks == cycleCount - (IF includeFinalBreak THEN 0 ELSE 1) IN
        /\ \A k \in 1..cycleCount : Cardinality(FiredOf("work", k)) <= 1
        /\ Cardinality(Fired("work")) <= cycleCount
        /\ Cardinality(Fired("break")) <= breaks
        /\ Cardinality(Fired("complete")) <= 1
        /\ Finished =>
              /\ \A k \in 1..cycleCount : Cardinality(FiredOf("work", k)) = 1
              /\ Cardinality(Fired("work")) = cycleCount
              /\ Cardinality(Fired("break")) = breaks
              /\ Cardinality(Fired("complete")) = 1

\* A full run of two cycles without the final break: two work-starts, one break.
C1_Witness ==
    /\ Finished /\ ValidDurations /\ cycleCount = 2 /\ ~includeFinalBreak
    /\ Cardinality(Fired("work")) = 2
    /\ Cardinality(Fired("break")) = 1
    /\ Cardinality(Fired("complete")) = 1

\* C2: the work-start of cycle k fires at offset (k-1)*cycleDuration and a
\* break-start of cycle k at (k-1)*cycleDuration + workDurationMs; every cycle
\* in 1..cycleCount has had its work-start when the run is over.
C2_Offsets ==
    /\ \A i \in Fired("work") :
          /\ fired[i].k \in 1..cycleCount
          /\ fired[i].at = (fired[i].k - 1) * cycleDuration
    /\ \A i \in Fired("break") :
          /\ fired[i].k \in 1..cycleCount
          /\ fired[i].at = (fired[i].k - 1) * cycleDuration + workDurationMs
    /\ Finished => \A k \in 1..cycleCount : FiredOf("work", k) # {}

\* work=25, break=5, interval=4: work-starts at minutes 0, 30, 60, 90 and
\* break-starts at minutes 25, 55, 85.
C2_Witness ==
    /\ Finished /\ DefaultsTyped /\ ~includeFinalBreak
    /\ \A k \in 1..4 : \E i \in FiredOf("work", k) :
          fired[i].at = (k - 1) * 30 * 60000
    /\ \A k \in 1..3 : \E i \in FiredOf("break", k) :
          fired[i].at = ((k - 1) * 30 + 25) * 60000

\* C3: without the final break, completion fires at offset
\* (cycleCount-1)*cycleDuration + workDurationMs, a full run of at least one
\* cycle has it, and the last cycle never gets a break-start, neither before
\* nor after completion.
C3_CompletionReplacesLastBreak ==
    ~includeFinalBreak =>
        /\ \A i \in Fired("complete") :
              fired[i].at = (cycleCount - 1) * cycleDuration + workDurationMs
        /\ FiredOf("break", cycleCount) = {}
        /\ (Finished /\ cycleCount >= 1) => Fired("complete") # {}

\* A full run of two cycles that ended with the completion, not a break.
C3_Witness ==
    /\ Finished /\ ~includeFinalBreak /\ cycleCount = 2 /\ ValidDurations
    /\ Fired("complete") # {}
    /\ FiredOf("break", 1) # {}
    /\ fired[Len(fired)].ev = "complete"

\* C4 as stated: without the final break, completion is coincident with the
\* last cycle's work-start handler (minute 90 for 25/5/4, minute 0 for one cycle).
C4_CompletionAtLastWorkStart ==
    ~includeFinalBreak =>
        \A i \in Fired("complete") :
            fired[i].at = (cycleCount - 1) * cycleDuration

\* C4, amended: without the final break, completion fires one work interval
\* after the last cycle's work-start handler has run, where that cycle's break
\* would have started, and that cycle has no break-start (25/5/4: completion at
\* minute 115, the 4th work-start at minute 90; one cycle: completion at minute
\* `work`, no break-start at all).
C4_CompletionAfterLastWork ==
    ~includeFinalBreak =>
        /\ \A i \in Fired("complete") :
              \E j \in FiredOf("work", cycleCount) :
                  /\ j < i
                  /\ fired[i].at = fired[j].at + flags.work * 60000
        /\ FiredOf("break", cycleCount) = {}
        /\ (cycleCount = 1) => Fired("break") = {}

\* The default session: the 4th work-start at minute 90, completion at 115.
C4_Witness ==
    /\ Finished /\ DefaultsTyped /\ ~includeFinalBreak
    /\ \E j \in FiredOf("work", 4) : fired[j].at = 90 * 60000
    /\ \E i \in Fired("complete") : fired[i].at = 115 * 60000
    /\ Cardinality(Fired("break")) = 3

\* C5: typed with --last-break, the last cycle also gets a break-start at
\* (cycleCount-1)*cycleDuration + workDurationMs, and completion fires exactly
\* once, at cycleCount*cycleDuration, after that break-start.
C5_LastBreakFlag ==
    ("--last-break" \in args.switches /\ cycleCount >= 1) =>
        /\ Cardinality(Fired("complete")) <= 1
        /\ \A i \in Fired("complete") :
              /\ fired[i].at = cycleCount * cycleDuration
              /\ \E j \in FiredOf("break", cycleCount) :
                    /\ j < i
                    /\ fired[j].at = (cycleCount - 1) * cycleDuration + workDurationMs
        /\ Finished =>
              /\ FiredOf("break", cycleCount) # {}
              /\ Fired("complete") # {}

----------------------------------------------------------------------------
\* What was typed, read off Deno.args
UrlTyped ==
    /\ args.positional # <<>>
    /\ Len(args.positional[1]) >= 4
    /\ SubSeq(args.positional[1], 1, 4) = <<"h", "t", "t", "p">>
PlaylistTyped == args.playlist # <<>> /\ args.playlist[1] # ""
SearchTyped == "--search" \in args.switches

\* The commands that query, play, search or steer the media player.
PlayerActs ==
    { "exists playlist", "play playlist", "open search",
      "shuffle off, repeat all", "play", "pause", "stop" }
Issued(act) == {i \in DOMAIN cmds : cmds[i].act = act}

\* C6: once main has chosen, the mode is YouTube exactly when the positional
\* argument starts with http (whatever --playlist says), Music exactly when it
\* does not and a non-empty playlist name was given, System otherwise; in
\* YouTube mode the URL is opened and no command ever goes to the media player.
C6_ModeSelection ==
    pc # "module" =>
        /\ operatingMode =
              IF UrlTyped THEN "youtube"
              ELSE IF PlaylistTyped THEN "music" ELSE "system"
        /\ UrlTyped =>
              /\ Issued("open url") # {}
              /\ \A i \in DOMAIN cmds : cmds[i].act \notin PlayerActs

\* A full run typed with both a URL and a playlist name.
C6_Witness ==
    /\ Finished /\ UrlTyped /\ PlaylistTyped
    /\ operatingMode = "youtube"
    /\ Issued("open url") # {}
    /\ Fired("complete") # {}

\* The playlist check of Music mode has answered, and the answer is not "true".
PlaylistNotFound ==
    /\ operatingMode = "music"
    /\ queryResult # NotSettled
    /\ queryResult.rejected \/ queryResult.stdout # <<"t", "r", "u", "e", "\n">>

\* C7: playlist not found and no --search: Deno.exit(1) with no timer
\* registered, no handler run and nothing but the existence query issued;
\* playlist not found and --search: the catalog search is issued, main does not
\* take the exit and returns in Music mode with a timer registered for every
\* cycle that has not started yet (and for the completion, with the final break).
C7_PlaylistNotFound ==
    /\ (PlaylistNotFound /\ ~SearchTyped) =>
          /\ status = "exit(1)"
          /\ timers = {}
          /\ fired = <<>>
          /\ \A i \in DOMAIN cmds : cmds[i].act = "exists playlist"
    /\ (PlaylistNotFound /\ SearchTyped) =>
          /\ status # "exit(1)"
          /\ pc = "returned"
          /\ Issued("open search") # {}
          /\ Issued("play playlist") = {}
          /\ operatingMode = "music"
          /\ \A k \in 1..cycleCount :
                \/ FiredOf("work", k) # {}
                \/ \E t \in timers :
                      /\ t.fn = "runCycle" /\ t.k = k
                      /\ t.due = (k - 1) * cycleDuration
          /\ includeFinalBreak =>
                \/ Fired("complete") # {}
                \/ \E t \in timers :
                      /\ t.fn = "runFinalActions"
                      /\ t.due = cycleCount * cycleDuration

\* A full Music-mode run after a playlist that was not found, with --search.
C7_Witness ==
    /\ Finished /\ PlaylistNotFound /\ SearchTyped
    /\ cycleCount = 2
    /\ Cardinality(Fired("work")) = 2
    /\ Issued("pause") # {}
    /\ Issued("stop") # {}

\* main has chosen System or YouTube mode.
VolumeMode == pc # "module" /\ operatingMode \in {"system", "youtube"}
SetVolumes == Issued("set volume")
LastOf(S) == CHOOSE i \in S : \A j \in S : j <= i

\* C8: in System and YouTube modes the volume is read once, the read is
\* answered before any handler runs and made before any volume command; every
\* volume command is 0 or the captured value; and the last volume command of a
\* full run is the captured value.
C8_RestorableVolume ==
    VolumeMode =>
        /\ Cardinality(Issued("get volume")) = 1
        /\ \A i \in SetVolumes : \E j \in Issued("get volume") : j < i
        /\ fired # <<>> => queryResult # NotSettled
        /\ \A i \in SetVolumes : cmds[i].level \in {0, originalVolume}
        /\ \A i \in Fired("complete") :
              \E j \in SetVolumes : cmds[j].level = originalVolume
        /\ (Finished /\ SetVolumes # {}) =>
              cmds[LastOf(SetVolumes)].level = originalVolume

\* C9: no rejection of a runCommand promise is left unhandled, and none ends
\* the process while timers are pending.
C9_NoRejectionEscapes == ~unhandled /\ status # "uncaught"

\* C10: after the startup volume query, originalVolume is a volume level, it is
\* 50 whenever the query failed (could not run, exited unsuccessfully, or wrote
\* no number), and main has gone on to register the timers.
C10_VolumeFallback ==
    (VolumeMode /\ queryResult # NotSettled) =>
        /\ originalVolume \in 0..100
        /\ ( \/ queryResult.rejected
             \/ queryResult.code # 0
             \/ queryResult.stdout = <<>>
             \/ ~IsDigit(Head(queryResult.stdout)) )
           => originalVolume = 50
        /\ pc = "returned"

\* C11: a configuration with a work or break duration of zero or less, or a
\* cycle count of zero or less, is rejected before anything happens: no startup
\* command is issued, no timer is registered and no handler runs.
InvalidConfiguration == flags.work <= 0 \/ flags.break <= 0 \/ flags.interval <= 0
C11_InvalidConfigurationRejected ==
    InvalidConfiguration =>
        /\ pc = "module"
        /\ cmds = <<>>
        /\ timers = {}
        /\ fired = <<>>

\* The handler the order work-start 1, break-start 1, work-start 2, ...,
\* completion puts in place i.
ExpectedHandler(i) ==
    IF i % 2 = 1 /\ (i + 1) \div 2 <= cycleCount
    THEN [ev |-> "work", k |-> (i + 1) \div 2]
    ELSE IF i % 2 = 0 /\ (i \div 2 < cycleCount \/ includeFinalBreak)
    THEN [ev |-> "break", k |-> i \div 2]
    ELSE [ev |-> "complete", k |-> 0]

\* C12: with cycleCount >= 1 and work, break > 0 no two pending callbacks have
\* the same deadline and none is due at an instant at which a callback has
\* already run; the handlers run at strictly increasing offsets, in the order
\* work-start 1, break-start 1, work-start 2, break-start 2, ..., completion last.
C12_StrictOrder ==
    ValidDurations =>
        /\ \A t, u \in timers : t # u => t.due # u.due
        /\ fired # <<>> => \A t \in timers : t.due > now
        /\ \A i, j \in DOMAIN fired : i < j => fired[i].at < fired[j].at
        /\ \A i \in DOMAIN fired :
              /\ fired[i].ev = ExpectedHandler(i).ev
              /\ fired[i].k = ExpectedHandler(i).k
        /\ \A i \in Fired("complete") : i = Len(fired)

\* A full run of two cycles with the final break: five handlers in order.
C12_Witness ==
    /\ Finished /\ ValidDurations /\ cycleCount = 2 /\ includeFinalBreak
    /\ Len(fired) = 5
    /\ fired[4].ev = "break" /\ fired[4].k = 2
    /\ fired[5].ev = "complete"
    /\ fired[4].at < fired[5].at

\* A timer is pending for the work-start, the break-start of cycle k, or for
\* the completion.
WorkStartPending(k) == \E t \in timers : t.fn = "runCycle" /\ t.k = k
BreakStartPending(k) ==
    \E t \in timers : t.fn = "workElapsed" /\ t.k = k /\ ~(k = cycleCount /\ ~includeFinalBreak)
CompletionPending ==
    \E t \in timers :
        \/ t.fn = "runFinalActions"
        \/ t.fn = "workElapsed" /\ t.k = cycleCount /\ ~includeFinalBreak

\* C13 as stated: once main has returned, every work-start, every break-start
\* and the completion of the session has run or has its timer pending, so that
\* nothing is left for a handler to register.
C13_AllRegisteredUpFront ==
    pc = "returned" =>
        /\ \A k \in 1..cycleCount :
              /\ FiredOf("work", k) # {} \/ WorkStartPending(k)
              /\ (k < cycleCount \/ includeFinalBreak) =>
                    (FiredOf("break", k) # {} \/ BreakStartPending(k))
        /\ (cycleCount >= 1 \/ includeFinalBreak) =>
              (Fired("complete") # {} \/ CompletionPending)

\* C13, amended: the work-start timers and, with the final break, the
\* completion timer are registered up front by main; the break-start timers
\* and, without the final break, the completion are chained: the timer of cycle
\* k exists only once work-start k has run, which registers it, and stays until
\* the break-start (or the completion in its place) has run.
C13_WorkStartsUpFrontBreaksChained ==
    pc = "returned" =>
        /\ \A k \in 1..cycleCount : FiredOf("work", k) # {} \/ WorkStartPending(k)
        /\ includeFinalBreak =>
              \/ Fired("complete") # {}
              \/ \E t \in timers : t.fn = "runFinalActions"
        /\ \A t \in timers : t.fn = "workElapsed" => FiredOf("work", t.k) # {}
        /\ \A k \in 1..cycleCount :
              FiredOf("work", k) # {} =>
                  \/ \E t \in timers : t.fn = "workElapsed" /\ t.k = k
                  \/ FiredOf("break", k) # {}
                  \/ k = cycleCount /\ ~includeFinalBreak /\ Fired("complete") # {}

\* Work-start 1 has run and left the timer of break-start 1; cycle 2 has only
\* its work-start timer.
C13_Witness ==
    /\ pc = "returned" /\ cycleCount = 2 /\ ValidDurations
    /\ Len(fired) = 1 /\ fired[1].ev = "work"
    /\ BreakStartPending(1)
    /\ WorkStartPending(2)
    /\ ~BreakStartPending(2) /\ ~CompletionPending

\* C14: main assigns the mode once and nothing changes it afterwards, nor the
\* captured volume once main has returned; no timer is pending and no handler
\* has run before main has returned, and a handler runs only after the awaited
\* volume capture or playlist check has answered.
C14_StartupBeforeSchedule ==
    [][ /\ pc # "module" => operatingMode' = operatingMode
        /\ pc = "module" =>
              (operatingMode' = operatingMode \/ (pc' # "module" /\ fired' = <<>>))
        /\ pc = "returned" => originalVolume' = originalVolume
        /\ pc' # "returned" => (timers' = {} /\ fired' = <<>>)
        /\ fired' # fired => (pc = "returned" /\ queryResult # NotSettled)
      ]_vars

\* A full YouTube-mode run whose handlers restored the captured volume 70.
C14_Witness ==
    /\ Finished /\ operatingMode = "youtube" /\ originalVolume = 70
    /\ Len(fired) >= 3
    /\ \A i \in DOMAIN cmds :
          cmds[i].act = "set volume" => cmds[i].level \in {0, 70}

\* C15: in Music mode the handlers issue one resume per work-start, one pause
\* per break-start and one stop per completion, and the system volume is
\* neither read nor set; in System and YouTube modes every handler issues one
\* volume command, a mute for each break-start and a restore for each
\* work-start and completion, and no command goes to the media player.
C15_ModeDispatch ==
    pc # "module" =>
        /\ operatingMode = "music" =>
              /\ Issued("get volume") = {} /\ Issued("set volume") = {}
              /\ Cardinality(Issued("play")) = Cardinality(Fired("work"))
              /\ Cardinality(Issued("pause")) = Cardinality(Fired("break"))
              /\ Cardinality(Issued("stop")) = Cardinality(Fired("complete"))
        /\ operatingMode \in {"system", "youtube"} =>
              /\ \A i \in DOMAIN cmds : cmds[i].act \notin PlayerActs
              /\ Cardinality(Issued("set volume")) = Len(fired)
              /\ originalVolume # 0 =>
                    Cardinality({i \in Issued("set volume") : cmds[i].level = 0})
                        = Cardinality(Fired("break"))

\* A full Music-mode run of two cycles: two resumes, a pause and a stop.
C15_Witness ==
    /\ Finished /\ operatingMode = "music" /\ cycleCount = 2 /\ ~includeFinalBreak
    /\ Cardinality(Issued("play")) = 2
    /\ Cardinality(Issued("pause")) = 1
    /\ Cardinality(Issued("stop")) = 1
    /\ Issued("set volume") = {}

\* The playlist check of Music mode failed: osascript could not be run, exited
\* unsuccessfully, or wrote something other than true.
PlaylistCheckFailed ==
    /\ operatingMode = "music"
    /\ queryResult # NotSettled
    /\ \/ queryResult.rejected
       \/ queryResult.code # 0
       \/ queryResult.stdout \notin
             { <<"t", "r", "u", "e">>, <<"t", "r", "u", "e", "\n">> }

\* C16: after a failed playlist check main never starts playlist playback (nor
\* its shuffle/repeat follow-up): with --search it has issued the catalog search
\* and gone on, without --search it has taken Deno.exit(1).
C16_FailedCheckIsNotFound ==
    PlaylistCheckFailed =>
        /\ Issued("play playlist") = {}
        /\ Issued("shuffle off, repeat all") = {}
        /\ \A t \in timers : t.fn # "shuffle"
        /\ SearchTyped => (Issued("open search") # {} /\ pc = "returned")
        /\ ~SearchTyped => (status = "exit(1)" /\ Issued("open search") = {})

\* osascript could not be run and --search was typed: a full run in Music mode.
C16_Witness ==
    /\ Finished /\ PlaylistCheckFailed /\ queryResult.rejected /\ SearchTyped
    /\ Issued("open search") # {}
    /\ Fired("complete") # {}

\* The commands that change what is heard, and the last of them.
AudioActs == {"set volume", "play playlist", "play", "pause", "stop"}
AudioCmds == {i \in DOMAIN cmds : cmds[i].act \in AudioActs}
IsMuteOrPause(c) == c.act = "pause" \/ (c.act = "set volume" /\ c.level = 0)
KilledDuringBreak ==
    status = "killed" /\ fired # <<>> /\ fired[Len(fired)].ev = "break"

\* C17: the step that ends the process from outside, and every step after it,
\* runs no handler, issues no command (no restore on the way out) and leaves
\* the pending timers unserved; a process ended while the last handler run was
\* a break-start is left with the volume at 0 or playback paused.
C17_TerminationLeavesState ==
    /\ [][ status' = "killed" =>
              (fired' = fired /\ cmds' = cmds /\ timers' = timers) ]_vars
    /\ [](KilledDuringBreak =>
              (AudioCmds # {} /\ IsMuteOrPause(cmds[LastOf(AudioCmds)])))

\* Ended during the first break of a System-mode session, work-start 2 pending.
C17_Witness ==
    /\ KilledDuringBreak /\ ValidDurations /\ operatingMode = "system"
    /\ \E t \in timers : t.fn = "runCycle" /\ t.k = 2
    /\ cmds[Len(cmds)].act = "set volume" /\ cmds[Len(cmds)].level = 0

\* Every callback due by now has run; the clock stands in the work interval or
\* in the break of cycle k.
Quiet == pc = "returned" /\ fired # <<>> /\ \A t \in timers : t.due > now
InWork(k) ==
    /\ (k - 1) * cycleDuration <= now
    /\ now < (k - 1) * cycleDuration + workDurationMs
InBreak(k) ==
    /\ k < cycleCount \/ includeFinalBreak
    /\ (k - 1) * cycleDuration + workDurationMs <= now
    /\ now < k * cycleDuration
IsUnmuteOrResume(c) ==
    c.act = "play" \/ (c.act = "set volume" /\ c.level = originalVolume)
IsRestoreOrStop(c) ==
    c.act = "stop" \/ (c.act = "set volume" /\ c.level = originalVolume)

\* C18: throughout every work interval the most recent audio command is an
\* unmute or resume, throughout every break a mute or pause; completion is the
\* last handler to run and its restore or stop the last audio command.
C18_AudioTracksPhase ==
    /\ Quiet =>
          \A k \in 1..cycleCount :
              /\ InWork(k) =>
                    (AudioCmds # {} /\ IsUnmuteOrResume(cmds[LastOf(AudioCmds)]))
              /\ InBreak(k) =>
                    (AudioCmds # {} /\ IsMuteOrPause(cmds[LastOf(AudioCmds)]))
    /\ \A i \in Fired("complete") :
          /\ i = Len(fired)
          /\ AudioCmds # {} /\ IsRestoreOrStop(cmds[LastOf(AudioCmds)])

\* C19: with a break of 0 minutes and at least two cycles, break-start k has
\* run before work-start k+1 runs, and the audio is unmuted or playing during
\* work interval k+1.
C19_BreakBeforeNextWork ==
    (flags.break = 0 /\ cycleCount >= 2) =>
        /\ \A j \in Fired("work") :
              fired[j].k >= 2 =>
                  \E i \in FiredOf("break", fired[j].k - 1) : i < j
        /\ Quiet =>
              \A k \in 2..cycleCount :
                  InWork(k) =>
                      (AudioCmds # {} /\ IsUnmuteOrResume(cmds[LastOf(AudioCmds)]))

====
